---- MODULE Spec2Model ----
(***************************************************************************)
(* A model of pre_workbench/project.py: the Project persistence object,   *)
(* an SQLite database file with an options table and an annotations       *)
(* table, reached through any number of Project handles (connections).     *)
(*                                                                         *)
(* The database engine is modelled by what the code relies on: a          *)
(* committed image of the file (disk), one RESERVED lock whose holder has  *)
(* an uncommitted image (pending), statement-level rollback when a         *)
(* statement raises, and rollback of the open transaction when a           *)
(* connection goes away.                                                   *)
(***************************************************************************)
EXTENDS Integers, Sequences, FiniteSets, TLC

(* ---------------------------------------------------------------- bounds *)

\* Most rows the annotations table is allowed to grow to in the model.
MaxRows == 2

\* Longest path, in components, given to getRelativePath.
MaxDepth == 3

(* ------------------------------------------------------------- universes *)

Handles == {"h1", "h2"}
NoHandle == "none"

RangeIds == {"r1", "r2"}

Keys == {"format_infos", "k1"}
Values == {"v1", "v2"}
\* A value the serialization codec has no encoding for.
Unserializable == "obj"
Defaults == {"None", "v1"}

SetNames == {"set1", "set2"}

\* Python None / SQL NULL where an integer is expected; no byte offset.
NULL == 0 - 1
\* The <<start, end>> byte offsets a Range is given.
Spans == {<<0, 1>>, <<1, 2>>}

NoMeta == [k \in {} |-> 0]
\* Metadata mappings a fresh Range is created with.  A "blob" entry holds a
\* bytes object, which json has no encoding for.
BlobMeta == [k \in {"blob"} |-> 0]
MetaChoices == {NoMeta, BlobMeta}
\* Insertion order of the keys of a metadata dict: 'rowid' is added last.
MetaKeyOrder == <<"blob", "rowid">>

VARIABLES
    disk,           \* the database file: [schema, options, annotations], committed
    lock,           \* the handle holding the RESERVED lock, or NoHandle
    pending,        \* [options, annotations] as the lock holder sees them
    conn,           \* handle -> [open]
    ranges,         \* range object -> [start, end, metadata]
    ret,            \* outcome of the last Project call
    lastSet,        \* key -> the value of the last setValue that returned, or ""
    projectFolder,  \* Project.projectFolder, a sequence of path components
    pathRet         \* outcome of the last getRelativePath call

vars == <<disk, lock, pending, conn, ranges, ret, lastSet, projectFolder, pathRet>>

(* ------------------------------------------------------------ pure parts *)

\* xdrm.dumps raises for a value it cannot encode.
XdrmSerializable(v) == v # Unserializable

\* xdrm.dumps: a value to its blob.
XdrmDumps(v) == <<"xdrm", v>>

\* xdrm.loads: a blob to its value.
XdrmLoads(b) == b[2]

\* json.dumps raises TypeError for a bytes value.
JsonSerializable(md) == "blob" \notin DOMAIN md

RECURSIVE JsonItems(_, _)
JsonItems(md, i) ==
    IF i > Len(MetaKeyOrder) THEN <<>>
    ELSE IF MetaKeyOrder[i] \in DOMAIN md
         THEN <<(<<MetaKeyOrder[i], md[MetaKeyOrder[i]]>>)>> \o JsonItems(md, i + 1)
         ELSE JsonItems(md, i + 1)

\* json.dumps(range.metadata): the key/value pairs in the dict's order.
JsonDumps(md) == JsonItems(md, 1)

\* range.metadata['rowid'] = v
SetRowid(md, v) ==
    [k \in DOMAIN md \cup {"rowid"} |-> IF k = "rowid" THEN v ELSE md[k]]

(* ------------------------------------------------------------------ paths *)

\* File names, each a sequence of characters: "p", "s", "f" and "..d".
FileNames == {<<"p">>, <<"s">>, <<"f">>, <<".", ".", "d">>}

\* Normalized absolute paths, each the sequence of its components; the empty
\* sequence is the root directory.
RECURSIVE PathsOfLength(_)
PathsOfLength(n) ==
    IF n = 0 THEN {<<>>}
    ELSE {Append(q, c) : q \in PathsOfLength(n - 1), c \in FileNames}

AbsolutePaths == UNION {PathsOfLength(n) : n \in 0..MaxDepth}

\* os.path.join of components: the names with "/" between them.
RECURSIVE PathJoin(_)
PathJoin(parts) ==
    IF parts = <<>> THEN <<>>
    ELSE IF Len(parts) = 1 THEN parts[1]
    ELSE parts[1] \o <<"/">> \o PathJoin(Tail(parts))

\* The text of an absolute path.
AbsText(parts) == <<"/">> \o PathJoin(parts)

\* len(commonprefix([start_list, path_list]))
RECURSIVE CommonPrefixLen(_, _)
CommonPrefixLen(a, b) ==
    IF a = <<>> \/ b = <<>> \/ a[1] # b[1] THEN 0
    ELSE 1 + CommonPrefixLen(Tail(a), Tail(b))

\* os.path.relpath(path, start) on normalized absolute paths.
RelPath(path, start) ==
    LET i == CommonPrefixLen(start, path)
        rel_list == [k \in 1..(Len(start) - i) |-> <<".", ".">>]
                        \o SubSeq(path, i + 1, Len(path))
    IN  IF rel_list = <<>> THEN <<".">> ELSE PathJoin(rel_list)

\* str.startswith
StartsWith(text, prefix) ==
    /\ Len(text) >= Len(prefix)
    /\ SubSeq(text, 1, Len(prefix)) = prefix

\* Project.getRelativePath
getRelativePath(folder, absolutePath) ==
    LET path == RelPath(absolutePath, folder)
    IN  IF StartsWith(path, <<".", ".">>) THEN AbsText(absolutePath) ELSE path

(* -------------------------------------------------------- SQL statements *)

\* The tables a freshly created database file holds: none.
EmptyDb == [schema |-> {}, options |-> <<>>, annotations |-> <<>>]

\* Faulty variant: CREATE TABLE after DROP TABLE IF EXISTS, which empties an
\* existing table.
DropAndCreateTable(db, t) ==
    [db EXCEPT !.schema = @ \cup {t}, ![t] = <<>>]

\* CREATE TABLE IF NOT EXISTS t (...): an existing table keeps its rows.
CreateTableIfNotExists(db, t) ==
    IF t \in db.schema THEN db
    ELSE [db EXCEPT !.schema = @ \cup {t}, ![t] = <<>>]

\* SELECT value FROM options WHERE name = ?
SelectValue(options, key) == SelectSeq(options, LAMBDA row : row.name = key)

\* Faulty variant: a plain INSERT into a table with no key on name, which
\* keeps the row already holding that name.
InsertIntoOptions(options, key, blob) ==
    Append(options, [name |-> key, value |-> blob])

\* REPLACE INTO options (name, value): name is the PRIMARY KEY, so the row
\* already holding that name is deleted before the new one is inserted.
ReplaceIntoOptions(options, key, blob) ==
    SelectSeq(options, LAMBDA row : row.name # key)
        \o <<[name |-> key, value |-> blob]>>

\* Faulty variant: SELECT set_name FROM annotations, without DISTINCT.
SelectSetNames(annotations) ==
    [i \in 1..Len(annotations) |-> annotations[i].set_name]

\* SELECT DISTINCT set_name FROM annotations, in the table's rowid order.
RECURSIVE SelectDistinctSetNames(_)
SelectDistinctSetNames(annotations) ==
    IF annotations = <<>> THEN <<>>
    ELSE LET n == Len(annotations)
             before == SelectDistinctSetNames(SubSeq(annotations, 1, n - 1))
             name == annotations[n].set_name
         IN  IF \E i \in 1..Len(before) : before[i] = name
             THEN before ELSE Append(before, name)

\* The (rowid, start, end, meta) column list of getAnnotations' SELECT.
RowTuple(row) == <<row.rowid, row.start, row.end, row.meta>>

\* SELECT rowid, start, end, meta FROM annotations WHERE set_name = ?
SelectAnnotations(annotations, set_name) ==
    LET hit == SelectSeq(annotations, LAMBDA row : row.set_name = set_name)
    IN  [i \in 1..Len(hit) |-> RowTuple(hit[i])]

\* Faulty variant: a rowid that does not depend on the rows already stored.
FirstRowid(annotations) == 1

\* rowid INTEGER PRIMARY KEY with no value given: one more than the largest
\* rowid in the table, 1 for an empty table.
NextRowid(annotations) ==
    IF annotations = <<>> THEN 1
    ELSE 1 + CHOOSE m \in {annotations[i].rowid : i \in 1..Len(annotations)} :
                 \A i \in 1..Len(annotations) : annotations[i].rowid <= m

\* The NOT NULL constraints of start and end.
NotNullOk(start, end) == start # NULL /\ end # NULL

\* Faulty variant: start and end bound to each other's column.
InsertAnnotationSwapped(annotations, set_name, start, end, meta) ==
    Append(annotations, [rowid |-> NextRowid(annotations), set_name |-> set_name,
                         start |-> end, end |-> start, meta |-> meta])

\* INSERT INTO annotations (set_name, start, end, meta)
InsertAnnotation(annotations, set_name, start, end, meta) ==
    Append(annotations, [rowid |-> NextRowid(annotations), set_name |-> set_name,
                         start |-> start, end |-> end, meta |-> meta])

\* Faulty variant: an INSERT that ignores the rowid the range carries.
InsertIgnoringRowid(annotations, rowid, set_name, start, end, meta) ==
    Append(annotations, [rowid |-> NextRowid(annotations), set_name |-> set_name,
                         start |-> start, end |-> end, meta |-> meta])

\* REPLACE INTO annotations (rowid, set_name, start, end, meta): the row with
\* that rowid, if any, is deleted and the new row takes its place in rowid
\* order.
ReplaceAnnotation(annotations, rowid, set_name, start, end, meta) ==
    LET row == [rowid |-> rowid, set_name |-> set_name,
                start |-> start, end |-> end, meta |-> meta]
        lower == SelectSeq(annotations, LAMBDA x : x.rowid < rowid)
        higher == SelectSeq(annotations, LAMBDA x : x.rowid > rowid)
    IN  lower \o <<row>> \o higher

(* ------------------------------------------------------------ connection *)

\* The committed rows of the file: what a newly opened connection reads.
DiskTables == [options |-> disk.options, annotations |-> disk.annotations]

\* The tables as handle h reads them: its own uncommitted image while it
\* holds the lock, the committed file otherwise.
View(h) == IF lock = h THEN pending ELSE DiskTables

\* Another connection holds the RESERVED lock: a write statement raises
\* "database is locked".
Busy(h) == lock \notin {NoHandle, h}

NoRet ==
    [op |-> "none", h |-> NoHandle, raised |-> FALSE, key |-> "", dflt |-> "",
     value |-> "", set |-> "", range |-> "", hadRowid |-> FALSE,
     names |-> <<>>, rows |-> <<>>]

\* Faulty variant: the statement runs and self.db.commit() is never called.
CommitMissing(h, t) ==
    /\ disk' = disk
    /\ lock' = h
    /\ pending' = t

\* self.db.commit() after a statement that produced the tables t.
Commit(h, t) ==
    /\ disk' = [disk EXCEPT !.options = t.options, !.annotations = t.annotations]
    /\ lock' = NoHandle
    /\ pending' = t

\* A write statement raised: its own changes are rolled back, and the
\* implicitly begun transaction stays open.  When the statement had reached
\* the table (a constraint failed) the connection keeps the RESERVED lock.
StatementFailed(h, reached) ==
    /\ disk' = disk
    /\ lock' = IF reached THEN h ELSE lock
    /\ pending' = IF reached THEN View(h) ELSE pending

\* The connection goes away: an open transaction is rolled back.
Rollback(hs) ==
    /\ lock' = IF lock \in hs THEN NoHandle ELSE lock
    /\ pending' = IF lock \in hs THEN DiskTables ELSE pending

(* ---------------------------------------------------------------- Project *)

\* The default format-info text __init__ passes to getValue.
DefaultFormatInfos == "DEFAULT"

\* initDb: the two CREATE TABLE IF NOT EXISTS statements.
initDb(db) ==
    CreateTableIfNotExists(CreateTableIfNotExists(db, "annotations"), "options")

\* Faulty variant: None, not defaultValue, for a missing key.
getValueNoDefault(t, key, defaultValue) ==
    LET result == SelectValue(t.options, key)
    IN  IF result # <<>> THEN XdrmLoads(result[1].value) ELSE "None"

\* getValue's result on the tables t.
getValue(t, key, defaultValue) ==
    LET result == SelectValue(t.options, key)
    IN  IF result # <<>> THEN XdrmLoads(result[1].value) ELSE defaultValue

\* getAnnotationSetNames' result on the tables t.
getAnnotationSetNames(t) == SelectDistinctSetNames(t.annotations)

\* getAnnotations' result on the tables t.
getAnnotations(t, set_name) == SelectAnnotations(t.annotations, set_name)

\* Project(dirName): connect (creating the file), initDb, then load the
\* format infos through getValue.
Open(h) ==
    /\ ~conn[h].open
    /\ LET db == initDb(disk)
       IN  /\ disk' = db
           /\ conn' = [conn EXCEPT ![h] = [open |-> TRUE]]
           /\ ret' = [NoRet EXCEPT !.op = "open", !.h = h,
                  !.value = getValue(
                      [options |-> db.options, annotations |-> db.annotations],
                      "format_infos", DefaultFormatInfos)]
    /\ UNCHANGED <<lock, pending, ranges, lastSet, projectFolder, pathRet>>

\* The caller discards the handle.
Close(h) ==
    /\ conn[h].open
    /\ conn' = [conn EXCEPT ![h] = [open |-> FALSE]]
    /\ Rollback({h})
    /\ ret' = [NoRet EXCEPT !.op = "close", !.h = h]
    /\ UNCHANGED <<disk, ranges, lastSet, projectFolder, pathRet>>

\* A Range the application holds before it was ever stored.
FreshRange == [start |-> 0, end |-> 1, metadata |-> NoMeta]

\* The process dies: every connection and every in-memory Range is gone.
Crash ==
    /\ \E h \in Handles : conn[h].open
    /\ conn' = [h \in Handles |-> [open |-> FALSE]]
    /\ Rollback(Handles)
    /\ ranges' = [r \in RangeIds |-> FreshRange]
    /\ ret' = [NoRet EXCEPT !.op = "crash"]
    /\ UNCHANGED <<disk, lastSet, projectFolder, pathRet>>

GetValue(h, key, defaultValue) ==
    /\ conn[h].open
    /\ ret' = [NoRet EXCEPT !.op = "getValue", !.h = h, !.key = key,
                            !.dflt = defaultValue,
                            !.value = getValue(View(h), key, defaultValue)]
    /\ UNCHANGED <<disk, lock, pending, conn, ranges, lastSet, projectFolder, pathRet>>

SetValue(h, key, value) ==
    /\ conn[h].open
    /\ IF ~XdrmSerializable(value) \/ Busy(h)
       THEN /\ StatementFailed(h, FALSE)
            /\ ret' = [NoRet EXCEPT !.op = "setValue", !.h = h, !.key = key,
                                    !.value = value, !.raised = TRUE]
            /\ lastSet' = lastSet
       ELSE /\ Commit(h, [View(h) EXCEPT !.options =
                              ReplaceIntoOptions(@, key, XdrmDumps(value))])
            /\ ret' = [NoRet EXCEPT !.op = "setValue", !.h = h, !.key = key,
                                    !.value = value]
            /\ lastSet' = [lastSet EXCEPT ![key] = value]
    /\ UNCHANGED <<conn, ranges, projectFolder, pathRet>>

GetAnnotationSetNames(h) ==
    /\ conn[h].open
    /\ ret' = [NoRet EXCEPT !.op = "getAnnotationSetNames", !.h = h,
                            !.names = getAnnotationSetNames(View(h))]
    /\ UNCHANGED <<disk, lock, pending, conn, ranges, lastSet, projectFolder, pathRet>>

GetAnnotations(h, set_name) ==
    /\ conn[h].open
    /\ ret' = [NoRet EXCEPT !.op = "getAnnotations", !.h = h, !.set = set_name,
                            !.rows = getAnnotations(View(h), set_name)]
    /\ UNCHANGED <<disk, lock, pending, conn, ranges, lastSet, projectFolder, pathRet>>

\* Faulty variant: the rowid assignment sits in a finally block, so it runs
\* with the cursor's initial lastrowid although the statement raised.
StoreAnnotationRaisedFinally(h, r, reached) ==
    /\ StatementFailed(h, reached)
    /\ ranges' = [ranges EXCEPT ![r].metadata = SetRowid(@, 0)]

\* storeAnnotation left by an exception: the assignment to
\* range.metadata['rowid'] is never reached.
StoreAnnotationRaised(h, r, reached) ==
    /\ StatementFailed(h, reached)
    /\ ranges' = ranges

StoreAnnotation(h, set_name, r) ==
    LET range == ranges[r]
        hadRowid == "rowid" \in DOMAIN range.metadata
        failed == [NoRet EXCEPT !.op = "storeAnnotation", !.h = h,
                                !.set = set_name, !.range = r,
                                !.hadRowid = hadRowid, !.raised = TRUE]
    IN
    /\ conn[h].open
    /\ hadRowid \/ Len(View(h).annotations) < MaxRows
    /\ IF ~JsonSerializable(range.metadata) \/ Busy(h)
       THEN /\ StoreAnnotationRaised(h, r, FALSE)
            /\ ret' = failed
       ELSE IF ~NotNullOk(range.start, range.end)
       THEN /\ StoreAnnotationRaised(h, r, TRUE)
            /\ ret' = failed
       ELSE LET meta == JsonDumps(range.metadata)
                old == View(h).annotations
                new == IF hadRowid
                       THEN ReplaceAnnotation(old, range.metadata["rowid"],
                                set_name, range.start, range.end, meta)
                       ELSE InsertAnnotation(old, set_name, range.start,
                                range.end, meta)
                lastrowid == IF hadRowid THEN range.metadata["rowid"]
                             ELSE NextRowid(old)
            IN  /\ Commit(h, [View(h) EXCEPT !.annotations = new])
                /\ ranges' = [ranges EXCEPT ![r].metadata = SetRowid(@, lastrowid)]
                /\ ret' = [failed EXCEPT !.raised = FALSE]
    /\ UNCHANGED <<conn, lastSet, projectFolder, pathRet>>

(* ------------------------------------------------------------ the caller *)

\* The application creates a new Range object in place of r.
NewRange(r, start, end, md) ==
    /\ \E h \in Handles : conn[h].open
    /\ ranges' = [ranges EXCEPT ![r] =
                     [start |-> start, end |-> end, metadata |-> md]]
    /\ ret' = [NoRet EXCEPT !.op = "newRange", !.range = r]
    /\ UNCHANGED <<disk, lock, pending, conn, lastSet, projectFolder, pathRet>>

\* The application moves the bounds of a Range it holds.
EditRange(r, start, end) ==
    /\ \E h \in Handles : conn[h].open
    /\ <<start, end>> # <<ranges[r].start, ranges[r].end>>
    /\ ranges' = [ranges EXCEPT ![r].start = start, ![r].end = end]
    /\ ret' = [NoRet EXCEPT !.op = "editRange", !.range = r]
    /\ UNCHANGED <<disk, lock, pending, conn, lastSet, projectFolder, pathRet>>

GetRelativePath(absolutePath) ==
    /\ pathRet' = [called |-> TRUE, path |-> absolutePath,
                   result |-> getRelativePath(projectFolder, absolutePath)]
    /\ UNCHANGED <<disk, lock, pending, conn, ranges, ret, lastSet, projectFolder>>

(* --------------------------------------------------------- specification *)

NoPathRet == [called |-> FALSE, path |-> <<>>, result |-> <<>>]

Init ==
    /\ disk = EmptyDb
    /\ lock = NoHandle
    /\ pending = [options |-> <<>>, annotations |-> <<>>]
    /\ conn = [h \in Handles |-> [open |-> FALSE]]
    /\ ranges = [r \in RangeIds |-> FreshRange]
    /\ ret = NoRet
    /\ lastSet = [k \in Keys |-> ""]
    /\ projectFolder = <<(<<"p">>)>>
    /\ pathRet = NoPathRet

\* Two handles on one project directory; every option key and value; one
\* Range, stored under one set name.
NextOptions ==
    \/ \E h \in Handles : Open(h)
    \/ \E h \in Handles : Close(h)
    \/ Crash
    \/ \E h \in Handles, k \in Keys, d \in Defaults : GetValue(h, k, d)
    \/ \E h \in Handles, k \in Keys, v \in Values \cup {Unserializable} :
           SetValue(h, k, v)
    \/ \E h \in Handles : StoreAnnotation(h, "set1", "r1")
    \/ \E in \in {<<0, 1, NoMeta>>, <<NULL, 1, NoMeta>>, <<0, 1, BlobMeta>>} :
           NewRange("r1", in[1], in[2], in[3])

SpecOptions == Init /\ [][NextOptions]_vars

\* One handle; one Range under every set name and span, also with metadata
\* json cannot encode and with no start; a second Range with fixed bounds
\* under one set name; one option key.
NextAnnotations ==
    \/ Open("h1")
    \/ Close("h1")
    \/ Crash
    \/ GetValue("h1", "k1", "None")
    \/ \E v \in {"v1", Unserializable} : SetValue("h1", "k1", v)
    \/ GetAnnotationSetNames("h1")
    \/ \E s \in SetNames : GetAnnotations("h1", s)
    \/ \E s \in SetNames : StoreAnnotation("h1", s, "r1")
    \/ StoreAnnotation("h1", "set1", "r2")
    \/ \E sp \in Spans \cup {<<NULL, 1>>}, md \in MetaChoices :
           NewRange("r1", sp[1], sp[2], md)
    \/ NewRange("r2", 0, 1, NoMeta)
    \/ \E sp \in Spans \cup {<<NULL, 1>>} : EditRange("r1", sp[1], sp[2])

SpecAnnotations == Init /\ [][NextAnnotations]_vars

\* getRelativePath on a project at /p or at /p/s, for every absolute path.
InitPath ==
    /\ disk = EmptyDb
    /\ lock = NoHandle
    /\ pending = [options |-> <<>>, annotations |-> <<>>]
    /\ conn = [h \in Handles |-> [open |-> FALSE]]
    /\ ranges = [r \in RangeIds |-> FreshRange]
    /\ ret = NoRet
    /\ lastSet = [k \in Keys |-> ""]
    /\ projectFolder \in {<<(<<"p">>)>>, <<(<<"p">>), (<<"s">>)>>}
    /\ pathRet = NoPathRet

NextPath == \E a \in AbsolutePaths : GetRelativePath(a)

SpecPath == InitPath /\ [][NextPath]_vars

(* ----------------------------------------------------------------- claims *)

OpenHandles == {h \in Handles : conn[h].open}

\* The tables as the handle of the last call reads them.
RetView == View(ret.h)

\* The last step was a storeAnnotation call that returned.
Stored == ret.op = "storeAnnotation" /\ ~ret.raised

\* C1: on every open handle, getValue(K, D) returns, for every default D, the
\* value of the last setValue(K, V) that returned, whatever was written to
\* other keys or to the annotations since; and the options table holds at
\* most one row per name.
C1_LastWriteWins ==
    /\ \A k \in Keys : Len(SelectValue(disk.options, k)) <= 1
    /\ \A h \in OpenHandles, k \in Keys :
           lastSet[k] # "" =>
               \A d \in Defaults : getValue(View(h), k, d) = lastSet[k]

\* A key overwritten with v2 is read back while the other key and an
\* annotation are stored too.
C1_Witness ==
    /\ ret.op = "getValue" /\ ret.key = "k1" /\ ret.dflt = "v1"
    /\ ret.value = "v2" /\ lastSet["k1"] = "v2"
    /\ lastSet["format_infos"] = "v1"
    /\ disk.options[1].name = "k1"
    /\ disk.annotations # <<>>

\* C2: a storeAnnotation(S, r) that returns, for a range r whose metadata had
\* no rowid, leaves a rowid in r.metadata, and getAnnotations(S) then holds a
\* row with that rowid whose start and end are r.start and r.end.
C2_InsertAssignsRowid ==
    [][(Stored' /\ ~ret'.hadRowid) =>
          LET range == ranges'[ret'.range]
              rows == getAnnotations(RetView', ret'.set)
          IN  /\ "rowid" \in DOMAIN range.metadata
              /\ \E i \in 1..Len(rows) :
                     /\ rows[i][1] = range.metadata["rowid"]
                     /\ rows[i][2] = range.start
                     /\ rows[i][3] = range.end]_vars

\* A second range was inserted under set2 after a first one.
C2_Witness ==
    /\ Stored /\ ~ret.hadRowid /\ ret.set = "set2"
    /\ ranges[ret.range].metadata["rowid"] = 2
    /\ ranges[ret.range].start = 1

\* C3: a storeAnnotation that returns, for a range that carried a rowid, does
\* not add a row: the table holds exactly one row with that rowid, with the
\* set name, start and end of this call, and r.metadata['rowid'] is what it
\* was before the call.
C3_UpdateInPlace ==
    [][(Stored' /\ ret'.hadRowid) =>
          LET before == ranges[ret'.range]
              rowid == before.metadata["rowid"]
              old == View(ret'.h).annotations
              new == RetView'.annotations
              hits == {i \in 1..Len(new) : new[i].rowid = rowid}
          IN  /\ Len(new) <= Len(old)
              /\ Cardinality(hits) = 1
              /\ \A i \in hits :
                     /\ new[i].set_name = ret'.set
                     /\ new[i].start = before.start
                     /\ new[i].end = before.end
              /\ "rowid" \in DOMAIN ranges'[ret'.range].metadata
              /\ ranges'[ret'.range].metadata["rowid"] = rowid]_vars

\* The first of two stored ranges was moved to set2 with new bounds.
C3_Witness ==
    /\ Stored /\ ret.hadRowid /\ ret.set = "set2"
    /\ Len(disk.annotations) = 2
    /\ ranges[ret.range].metadata["rowid"] = 1
    /\ disk.annotations[1].rowid = 1
    /\ disk.annotations[1].set_name = "set2"
    /\ disk.annotations[1].start = 1
    /\ disk.annotations[2].rowid = 2

\* C4: getValue(K, D) for a key K that no setValue ever stored returns D,
\* does not raise, and leaves the file, the lock and the open transaction as
\* they were.
C4_MissingKeyDefault ==
    [][(ret'.op = "getValue" /\ lastSet[ret'.key] = "") =>
          /\ ret'.value = ret'.dflt
          /\ ~ret'.raised
          /\ disk' = disk /\ pending' = pending /\ lock' = lock]_vars

\* k1 was never set, another key was, and getValue("k1", "v1") was called.
C4_Witness ==
    /\ ret.op = "getValue" /\ ret.key = "k1" /\ ret.dflt = "v1"
    /\ lastSet["k1"] = "" /\ lastSet["format_infos"] # ""
    /\ disk.annotations # <<>>

\* C5: getAnnotationSetNames() returns, without duplicates, exactly the set
\* names that at least one stored annotation row carries; for a project with
\* no annotation it returns the empty sequence.
C5_SetNames ==
    ret.op = "getAnnotationSetNames" =>
        LET rows == View(ret.h).annotations
        IN  /\ \A i, j \in 1..Len(ret.names) : ret.names[i] = ret.names[j] => i = j
            /\ {ret.names[i] : i \in 1..Len(ret.names)}
                   = {rows[i].set_name : i \in 1..Len(rows)}
            /\ rows = <<>> => ret.names = <<>>

\* Two rows share one set name and the call returned that name once.
C5_Witness ==
    /\ ret.op = "getAnnotationSetNames"
    /\ Len(disk.annotations) = 2
    /\ disk.annotations[1].set_name = disk.annotations[2].set_name
    /\ Len(ret.names) = 1

\* Rows are stored under both set names and the call returned both.
C5_WitnessBoth ==
    /\ ret.op = "getAnnotationSetNames"
    /\ {ret.names[i] : i \in 1..Len(ret.names)} = SetNames

\* The relative path by containment: A below the project folder P is A
\* without P's components, and any other A is returned as it is.
ExpectedRelativePath(folder, absolutePath) ==
    IF /\ Len(absolutePath) >= Len(folder)
       /\ SubSeq(absolutePath, 1, Len(folder)) = folder
    THEN IF Len(absolutePath) = Len(folder) THEN <<".">>
         ELSE PathJoin(SubSeq(absolutePath, Len(folder) + 1, Len(absolutePath)))
    ELSE AbsText(absolutePath)

\* C6: getRelativePath(A) is A relative to the project folder whenever A lies
\* inside it, whatever its components are called, and A itself otherwise.
C6_RelativeInsideProject ==
    pathRet.called =>
        pathRet.result = ExpectedRelativePath(projectFolder, pathRet.path)

\* C7: when setValue or storeAnnotation returns, its write is in the committed
\* file, where a handle opened later reads it; no step other than a write that
\* returns changes the committed rows (not closing a handle, not a crash), and
\* between calls no connection holds an uncommitted change.
C7_Durable ==
    [][/\ (ret'.op = "setValue" /\ ~ret'.raised) =>
              \A d \in Defaults : getValue(DiskTables', ret'.key, d) = ret'.value
       /\ Stored' =>
              LET range == ranges'[ret'.range]
                  rows == getAnnotations(DiskTables', ret'.set)
              IN  \E i \in 1..Len(rows) :
                      /\ rows[i][1] = range.metadata["rowid"]
                      /\ rows[i][2] = range.start
                      /\ rows[i][3] = range.end
       /\ (ret'.raised \/ ret'.op \notin {"setValue", "storeAnnotation"}) =>
              DiskTables' = DiskTables
       /\ pending' = DiskTables'
       /\ \A h \in Handles : conn'[h].open => View(h)' = DiskTables']_vars

\* The process crashed after an option and an annotation were written, and
\* both are in the file.
C7_Witness ==
    /\ ret.op = "crash"
    /\ \A k \in Keys : lastSet[k] # "" /\ getValue(DiskTables, k, "None") = lastSet[k]
    /\ Len(disk.annotations) = 2

\* C8: a setValue or storeAnnotation that raises leaves the committed file and
\* every handle's view of the two tables as they were, and gives the range's
\* metadata no rowid.
C8_AllOrNothing ==
    [][ret'.raised =>
          /\ ret'.op \in {"setValue", "storeAnnotation"}
          /\ disk' = disk
          /\ \A h \in OpenHandles : View(h)' = View(h)
          /\ ranges' = ranges
          /\ lastSet' = lastSet]_vars

\* storeAnnotation raised on a constraint while rows and options are stored.
C8_Witness ==
    /\ ret.raised /\ ret.op = "storeAnnotation" /\ lock = ret.h
    /\ ~ret.hadRowid
    /\ disk.annotations # <<>> /\ disk.options # <<>>

\* setValue raised in the database statement: another handle holds the lock.
C8_WitnessBusy ==
    /\ ret.raised /\ ret.op = "setValue" /\ ret.value # Unserializable
    /\ disk.options # <<>>

\* C9: constructing a Project leaves both tables in the file, and on a file
\* that already has them it changes no option and no annotation row, so every
\* query returns what it returned before.
C9_ReopenKeepsRows ==
    [][ret'.op = "open" =>
          /\ disk'.schema = {"annotations", "options"}
          /\ disk.schema # {} =>
                 /\ DiskTables' = DiskTables
                 /\ \A h \in OpenHandles : View(h)' = View(h)
                 /\ \A k \in Keys, d \in Defaults :
                        getValue(DiskTables', k, d) = getValue(DiskTables, k, d)
                 /\ getAnnotationSetNames(DiskTables')
                        = getAnnotationSetNames(DiskTables)
                 /\ \A s \in SetNames :
                        getAnnotations(DiskTables', s) = getAnnotations(DiskTables, s)]_vars

\* A project holding an option and an annotation was opened again while
\* another handle was open.
C9_Witness ==
    /\ ret.op = "open" /\ ret.value = "v2"
    /\ OpenHandles = Handles
    /\ disk.annotations # <<>>

\* C10: a storeAnnotation that returns, for a range without a rowid, adds one
\* row whose rowid no stored row had, keeps every stored row as it was, and
\* leaves the options table alone.
C10_InsertFrame ==
    [][(Stored' /\ ~ret'.hadRowid) =>
          LET old == View(ret'.h).annotations
              new == RetView'.annotations
              rowid == ranges'[ret'.range].metadata["rowid"]
          IN  /\ Len(new) = Len(old) + 1
              /\ \A i \in 1..Len(old) : old[i].rowid # rowid
              /\ \A i \in 1..Len(old) : \E j \in 1..Len(new) : new[j] = old[i]
              /\ \A i, j \in 1..Len(new) : new[i].rowid = new[j].rowid => i = j
              /\ RetView'.options = View(ret'.h).options
              /\ disk'.options = disk.options]_vars

\* A second row was inserted beside a stored one, with an option stored.
C10_Witness ==
    /\ Stored /\ ~ret.hadRowid
    /\ Len(disk.annotations) = 2
    /\ disk.options # <<>>

====
